---- MODULE Spec2Model ----
(***************************************************************************)
(* State-machine model of script/train.py: command-line configuration,     *)
(* dataset discovery and split, the epoch loop of main() with train_epoch  *)
(* and validate unrolled batch by batch, the ReduceLROnPlateau scheduler,  *)
(* wandb logging, best-checkpoint persistence and the final confusion      *)
(* matrix.                                                                 *)
(*                                                                         *)
(* Numbers.  Losses are fixed-point integers in units of 1/20000 (20000 is *)
(* a loss of 1.0); accuracies are integer percentages; learning rates are  *)
(* integers in units of 2.5e-9, so that the scheduler's eps of 1e-8 is 4.  *)
(* A video path is the pair <<class index, position in the glob result>>.  *)
(***************************************************************************)
EXTENDS Integers, Sequences, FiniteSets, TLC

VARIABLES
    cfg,              \* class CFG: the parsed command line (lines 44-82)
    dirs,             \* file system: class index -> number of .avi files in its directory
    pc,               \* position of main()
    wandb_config,     \* config passed to wandb.init
    wandb_log,        \* records passed to wandb.log, in order
    class_i,          \* loop variable i of the discovery loop
    file_paths, targets,
    train_paths, val_paths, train_targets, val_targets,
    train_loader, val_loader,
    model, optimizer, scheduler,
    best_val_acc, history, epoch,
    train_loss, train_acc, val_loss, val_acc, all_preds, all_labels,
    run,              \* locals of the running train_epoch / validate call
    checkpoint_file,  \* the file at resnet_lstm_path
    plots,            \* calls of plot_confusion_matrix, in order
    calls,            \* history variable: calls main() made in the current iteration
    batch_calls,      \* history variable: tensor operations on the current batch
    count             \* history variable: completed train_epoch / validate calls

inputs  == <<cfg, dirs>>
data    == <<class_i, file_paths, targets, train_paths, val_paths, train_targets, val_targets>>
loaders == <<train_loader, val_loader>>
nets    == <<model, optimizer, scheduler>>
metrics == <<train_loss, train_acc, val_loss, val_acc, all_preds, all_labels>>
outputs == <<wandb_config, wandb_log, checkpoint_file, plots>>
ghost   == <<calls, batch_calls, count>>

vars == <<cfg, dirs, pc, wandb_config, wandb_log, class_i, file_paths,
          targets,
          train_paths, val_paths, train_targets, val_targets, train_loader,
          val_loader, model, optimizer, scheduler, best_val_acc, history, epoch,
          train_loss, train_acc, val_loss, val_acc, all_preds, all_labels, run,
          checkpoint_file, plots, calls, batch_calls, count>>

----------------------------------------------------------------------------
(* Program constants *)

LenClasses == 101          \* len(CFG.classes)
NumClassesUcf101 == 101
NumClassesUcf11 == 11
TestSizeDen == 5           \* test_size = 0.2 = 1/5
Patience == 3
FactorDen == 2             \* factor = 0.5 = 1/2
ThresholdDen == 10000      \* ReduceLROnPlateau default threshold = 1e-4, mode 'rel'
Eps == 4                   \* ReduceLROnPlateau default eps = 1e-8, in learning-rate units

DatasetNames == {"ucf101", "ucf11"}
ClassIdx == 0 .. (LenClasses - 1)

(* Bounds of the model *)

MaxEpochs == 3             \* largest --epochs of Spec
MaxFiles == 2              \* most .avi files in one class directory
MaxPerClass == 2           \* largest --videos_per_class
MaxSchedEpochs == 9        \* largest --epochs of SpecSched

Min(a, b) == IF a < b THEN a ELSE b

----------------------------------------------------------------------------
(* Configuration: class CFG *)

CFG_num_classes(dataset_name) ==
    IF dataset_name = "ucf101" THEN NumClassesUcf101 ELSE NumClassesUcf11

(* wandb.init(config = {...}) *)
WandbConfig(c) ==
    [batch_size |-> c.batch_size, learning_rate |-> c.learning_rate,
     epochs |-> c.epochs, num_classes |-> CFG_num_classes(c.dataset_name)]

----------------------------------------------------------------------------
(* Dataset discovery: the loop over enumerate(CFG.classes) *)

Glob(d, i) == [j \in 1 .. d[i] |-> <<i, j>>]

SliceTo_all(s, k) == s
SliceTo(s, k) == SubSeq(s, 1, Min(k, Len(s)))        \* s[:k] for k >= 0

Repeat(x, n) == [j \in 1 .. n |-> x]                  \* [x] * n

----------------------------------------------------------------------------
(* train_test_split(file_paths, targets, test_size=0.2, random_state=42) *)

NTest(n) == (n + TestSizeDen - 1) \div TestSizeDen    \* ceil(0.2 * n)
NTrain(n) == n - NTest(n)

SplitRaises(n) == n = 0 \/ NTrain(n) = 0              \* ValueError: empty train set

Take(a, idx) == [k \in 1 .. Len(idx) |-> a[idx[k]]]  \* _safe_indexing

TestIdx(perm) == SubSeq(perm, 1, NTest(Len(perm)))
TrainIdx(perm) == SubSeq(perm, NTest(Len(perm)) + 1, Len(perm))

Perms(n) == {p \in [1 .. n -> 1 .. n] : \A a, b \in 1 .. n : p[a] = p[b] => a = b}
Identity(n) == [k \in 1 .. n |-> k]
Reverse(n) == [k \in 1 .. n |-> n + 1 - k]

----------------------------------------------------------------------------
(* DataLoader(dataset, batch_size, ...) : drop_last is False *)

DatasetLen(paths) == Len(paths)                       \* VideoDataset.__len__

DataLoader(dataset_len, batch_size) == [n |-> dataset_len, batch_size |-> batch_size]

LenLoader(dl) == (dl.n + dl.batch_size - 1) \div dl.batch_size

BatchLen(dl, b) == Min(dl.batch_size, dl.n - b * dl.batch_size)   \* labels.size(0)

----------------------------------------------------------------------------
(* ResNetLSTM, optim.Adam and optim.lr_scheduler.ReduceLROnPlateau *)

(* model = ResNetLSTM(num_classes=len(CFG.classes)).  params and buffers are  *)
(* version counters of the learnable parameters and of the running statistics *)
(* of the normalisation layers; together they are the state_dict.             *)
NewModel == [num_classes |-> LenClasses, training |-> TRUE,
             params |-> 0, buffers |-> 0, grad |-> "none"]

StateDict(m) == [run |-> "this", params |-> m.params, buffers |-> m.buffers]

(* model(videos): a forward pass updates the running statistics in training  *)
(* mode only; it never writes the parameters.                                *)
Forward(m) == IF m.training THEN [m EXCEPT !.buffers = @ + 1] ELSE m

(* optim.Adam(model.parameters(), lr=lr).  steps counts the updates made and *)
(* used_lr is the learning rate the latest update was made with.             *)
NewOptimizer(lr) == [lr |-> lr, steps |-> 0, used_lr |-> lr]

(* best = <<>> stands for +inf, the initial best of mode 'min' *)
NewScheduler == [best |-> <<>>, num_bad_epochs |-> 0, last_epoch |-> 0]

(* is_better for mode 'min', threshold_mode 'rel': a < best * (1 - 1e-4) *)
IsBetter(a, best) ==
    \/ best = <<>>
    \/ best # <<>> /\ a * ThresholdDen < best[1] * (ThresholdDen - 1)

(* _reduce_lr: new_lr = max(old_lr * factor, min_lr), applied when the change *)
(* exceeds eps                                                                *)
ReduceLr(old_lr) ==
    LET new_lr == old_lr \div FactorDen
    IN  IF old_lr - new_lr > Eps THEN new_lr ELSE old_lr

ExceedsPatience_at(num_bad_epochs) == num_bad_epochs >= Patience
ExceedsPatience(num_bad_epochs) == num_bad_epochs > Patience

(* scheduler.step(metrics): <<scheduler', lr'>> *)
SchedulerStep(s, lr, metric) ==
    LET better == IsBetter(metric, s.best)
        bad    == IF better THEN 0 ELSE s.num_bad_epochs + 1
        reduce == ExceedsPatience(bad)
    IN  << [best |-> IF better THEN <<metric>> ELSE s.best,
            num_bad_epochs |-> IF reduce THEN 0 ELSE bad,
            last_epoch |-> s.last_epoch + 1],
           IF reduce THEN ReduceLr(lr) ELSE lr >>

----------------------------------------------------------------------------
(* main(): decisions of the epoch loop *)

(* for epoch in range(CFG.epochs) *)
LoopContinues_inclusive(e, epochs) == e <= epochs
LoopContinues(e, epochs) == e < epochs

(* The statements of the loop body, in program order *)
IterationOrder_log_first == <<"train_epoch", "validate", "log", "scheduler", "save",
                              "history", "plot">>
IterationOrder == <<"train_epoch", "validate", "scheduler", "log", "save",
                    "history", "plot">>

(* Where main() goes after statement p of the loop body *)
PcAfter(p) ==
    LET k == CHOOSE j \in 1 .. Len(IterationOrder) : IterationOrder[j] = p
    IN  IF k < Len(IterationOrder) THEN IterationOrder[k + 1] ELSE "for"

IsNewBest_ties(acc, best) == acc >= best
IsNewBest(acc, best) == acc > best                    \* if val_acc > best_val_acc

IsLastEpoch_early(e, epochs) == e >= epochs - 2
IsLastEpoch(e, epochs) == e = epochs - 1              \* if epoch == CFG.epochs - 1

EmptyHistory == [train_loss |-> <<>>, train_acc |-> <<>>,
                 val_loss |-> <<>>, val_acc |-> <<>>]

NewRun == [running_loss |-> 0, correct |-> 0, total |-> 0, b |-> 0,
           loss |-> 0, ncorrect |-> 0, graph |-> FALSE,
           all_preds |-> <<>>, all_labels |-> <<>>]

NoFile == [exists |-> FALSE, epoch |-> 0,
           model_state_dict |-> [run |-> "none", params |-> 0, buffers |-> 0]]
StaleFile == [exists |-> TRUE, epoch |-> 1,
              model_state_dict |-> [run |-> "previous", params |-> 0, buffers |-> 0]]

----------------------------------------------------------------------------
(* Initial states.  P bounds the inputs: the command line, the class        *)
(* directories and the permutation drawn by the split.                      *)

DirsOn(S, max_files) ==
    {[c \in ClassIdx |-> IF c \in S THEN f[c] ELSE 0] : f \in [S -> 0 .. max_files]}

(* A scenario is a set of class directories together with a --batch_size *)
Scenarios(ds, batch_sizes) == {[dirs |-> d, batch_size |-> b] : d \in ds, b \in batch_sizes}

InitWith(P) ==
    /\ \E sc \in P.scenarios :
           /\ dirs = sc.dirs
           /\ cfg \in [epochs : P.epochs, batch_size : {sc.batch_size},
                       learning_rate : P.learning_rate,
                       videos_per_class : P.videos_per_class,
                       dataset_name : P.dataset_name]
    /\ checkpoint_file \in P.files
    /\ pc = "start"
    /\ wandb_config = <<>>
    /\ wandb_log = <<>>
    /\ class_i = 0
    /\ file_paths = <<>> /\ targets = <<>>
    /\ train_paths = <<>> /\ val_paths = <<>>
    /\ train_targets = <<>> /\ val_targets = <<>>
    /\ train_loader = DataLoader(0, 1) /\ val_loader = DataLoader(0, 1)
    /\ model = NewModel
    /\ optimizer = NewOptimizer(cfg.learning_rate)
    /\ scheduler = NewScheduler
    /\ best_val_acc = 0
    /\ history = EmptyHistory
    /\ epoch = 0
    /\ train_loss = 0 /\ train_acc = 0 /\ val_loss = 0 /\ val_acc = 0
    /\ all_preds = <<>> /\ all_labels = <<>>
    /\ run = NewRun
    /\ plots = <<>>
    /\ calls = <<>> /\ batch_calls = <<>>
    /\ count = [train_epoch |-> 0, validate |-> 0]

----------------------------------------------------------------------------
(* main(), up to the loop *)

WandbInit ==
    /\ pc = "start"
    /\ wandb_config' = WandbConfig(cfg)
    /\ pc' = "load"
    /\ UNCHANGED <<inputs, data, loaders, nets, metrics, best_val_acc, history,
                   epoch, run, wandb_log, checkpoint_file, plots, ghost>>

(* for i, cls in enumerate(CFG.classes): one class per step *)
LoadDatasetLoop ==
    /\ pc = "load"
    /\ IF class_i < LenClasses
       THEN LET sub_file_paths == SliceTo(Glob(dirs, class_i), cfg.videos_per_class)
            IN  /\ file_paths' = file_paths \o sub_file_paths
                /\ targets' = targets \o Repeat(class_i, Len(sub_file_paths))
                /\ class_i' = class_i + 1
                /\ pc' = "load"
       ELSE /\ pc' = "split"
            /\ UNCHANGED <<class_i, file_paths, targets>>
    /\ UNCHANGED <<inputs, train_paths, val_paths, train_targets, val_targets,
                   loaders, nets, metrics, best_val_acc, history, epoch, run,
                   outputs, ghost>>

(* The permutations the split may draw: random_state=42 fixes one per length *)
SplitPerms(D, n) == IF D.all_perms THEN Perms(n) ELSE {Identity(n), Reverse(n)}

TrainTestSplit(D) ==
    /\ pc = "split"
    /\ IF SplitRaises(Len(file_paths))
       THEN /\ pc' = "raised"
            /\ UNCHANGED <<train_paths, val_paths, train_targets, val_targets>>
       ELSE \E perm \in SplitPerms(D, Len(file_paths)) :
            /\ train_paths' = Take(file_paths, TrainIdx(perm))
            /\ val_paths' = Take(file_paths, TestIdx(perm))
            /\ train_targets' = Take(targets, TrainIdx(perm))
            /\ val_targets' = Take(targets, TestIdx(perm))
            /\ pc' = "setup"
    /\ UNCHANGED <<inputs, class_i, file_paths, targets, loaders, nets, metrics,
                   best_val_acc, history, epoch, run, outputs, ghost>>

(* datasets, loaders, model, criterion, optimizer, scheduler, best_val_acc, history *)
Setup ==
    /\ pc = "setup"
    /\ train_loader' = DataLoader(DatasetLen(train_paths), cfg.batch_size)
    /\ val_loader' = DataLoader(DatasetLen(val_paths), cfg.batch_size)
    /\ model' = NewModel
    /\ optimizer' = NewOptimizer(cfg.learning_rate)
    /\ scheduler' = NewScheduler
    /\ best_val_acc' = 0
    /\ history' = EmptyHistory
    /\ epoch' = 0
    /\ pc' = "for"
    /\ UNCHANGED <<inputs, data, metrics, run, outputs, ghost>>

(* for epoch in range(CFG.epochs); falling out of the loop is the return *)
ForEpoch ==
    /\ pc = "for"
    /\ IF LoopContinues(epoch, cfg.epochs)
       THEN pc' = IterationOrder[1] /\ calls' = <<>>
       ELSE pc' = "done" /\ UNCHANGED calls
    /\ UNCHANGED <<inputs, data, loaders, nets, metrics, best_val_acc, history,
                   epoch, run, outputs, batch_calls, count>>

----------------------------------------------------------------------------
(* train_epoch(model, train_loader, criterion, optimizer, device) *)

BatchOrEnd(dl, b, batch_pc, end_pc) == IF b < LenLoader(dl) THEN batch_pc ELSE end_pc

TrainEpochBegin ==
    /\ pc = "train_epoch"
    /\ model' = [model EXCEPT !.training = TRUE]                  \* model.train()
    /\ run' = NewRun
    /\ calls' = Append(calls, "train_epoch")
    /\ batch_calls' = <<>>
    /\ pc' = BatchOrEnd(train_loader, 0, "t_zero_grad", "t_end")
    /\ UNCHANGED <<inputs, data, loaders, optimizer, scheduler, metrics,
                   best_val_acc, history, epoch, outputs, count>>

TrainZeroGrad ==
    /\ pc = "t_zero_grad"
    /\ model' = [model EXCEPT !.grad = "zero"]
    /\ batch_calls' = <<"zero_grad">>
    /\ pc' = "t_forward"
    /\ UNCHANGED <<inputs, data, loaders, optimizer, scheduler, metrics,
                   best_val_acc, history, epoch, run, outputs, calls, count>>

TrainForward(D) ==
    /\ pc = "t_forward"
    /\ \E k \in D.train_correct \cap (0 .. BatchLen(train_loader, run.b)) :
           run' = [run EXCEPT !.ncorrect = k, !.graph = TRUE]
    /\ model' = Forward(model)
    /\ batch_calls' = Append(batch_calls, "forward")
    /\ pc' = "t_loss"
    /\ UNCHANGED <<inputs, data, loaders, optimizer, scheduler, metrics,
                   best_val_acc, history, epoch, outputs, calls, count>>

TrainLoss(D) ==
    /\ pc = "t_loss"
    /\ \E l \in D.train_loss : run' = [run EXCEPT !.loss = l]
    /\ batch_calls' = Append(batch_calls, "loss")
    /\ pc' = "t_backward"
    /\ UNCHANGED <<inputs, data, loaders, nets, metrics, best_val_acc, history,
                   epoch, outputs, calls, count>>

TrainBackward ==
    /\ pc = "t_backward"
    /\ run.graph
    /\ model' = [model EXCEPT !.grad = "fresh"]
    /\ batch_calls' = Append(batch_calls, "backward")
    /\ pc' = "t_step"
    /\ UNCHANGED <<inputs, data, loaders, optimizer, scheduler, metrics,
                   best_val_acc, history, epoch, run, outputs, calls, count>>

TrainOptimizerStep ==
    /\ pc = "t_step"
    /\ model' = [model EXCEPT !.params = @ + 1, !.grad = "used"]
    /\ optimizer' = [optimizer EXCEPT !.steps = @ + 1, !.used_lr = optimizer.lr]
    /\ batch_calls' = Append(batch_calls, "optimizer.step")
    /\ pc' = "t_accum"
    /\ UNCHANGED <<inputs, data, loaders, scheduler, metrics, best_val_acc,
                   history, epoch, run, outputs, calls, count>>

TrainAccumulate ==
    /\ pc = "t_accum"
    /\ run' = [run EXCEPT !.running_loss = @ + run.loss,
                          !.total = @ + BatchLen(train_loader, run.b),
                          !.correct = @ + run.ncorrect,
                          !.b = @ + 1]
    /\ pc' = BatchOrEnd(train_loader, run.b + 1, "t_zero_grad", "t_end")
    /\ UNCHANGED <<inputs, data, loaders, nets, metrics, best_val_acc, history,
                   epoch, outputs, ghost>>

TrainEpochEnd ==
    /\ pc = "t_end"
    /\ train_loss' = run.running_loss \div LenLoader(train_loader)
    /\ train_acc' = (100 * run.correct) \div run.total
    /\ count' = [count EXCEPT !.train_epoch = @ + 1]
    /\ pc' = PcAfter("train_epoch")
    /\ UNCHANGED <<inputs, data, loaders, nets, val_loss, val_acc, all_preds,
                   all_labels, best_val_acc, history, epoch, run, outputs,
                   calls, batch_calls>>

----------------------------------------------------------------------------
(* validate(model, val_loader, criterion, device) *)

(* labels of batch b: the loader does not shuffle *)
BatchLabels(dl, labels, b) ==
    SubSeq(labels, b * dl.batch_size + 1, b * dl.batch_size + BatchLen(dl, b))

ValidateBegin_no_eval ==
    /\ pc = "validate"
    /\ run' = NewRun
    /\ calls' = Append(calls, "validate")
    /\ batch_calls' = <<>>
    /\ pc' = BatchOrEnd(val_loader, 0, "v_forward", "v_end")
    /\ UNCHANGED <<inputs, data, loaders, nets, metrics, best_val_acc, history,
                   epoch, outputs, count>>

ValidateBegin ==
    /\ pc = "validate"
    /\ model' = [model EXCEPT !.training = FALSE]                 \* model.eval()
    /\ run' = NewRun
    /\ calls' = Append(calls, "validate")
    /\ batch_calls' = <<>>
    /\ pc' = BatchOrEnd(val_loader, 0, "v_forward", "v_end")
    /\ UNCHANGED <<inputs, data, loaders, optimizer, scheduler, metrics,
                   best_val_acc, history, epoch, outputs, count>>

ValidateForward(D) ==
    /\ pc = "v_forward"
    /\ \E k \in D.val_correct \cap (0 .. BatchLen(val_loader, run.b)) :
           run' = [run EXCEPT !.ncorrect = k, !.graph = FALSE]   \* torch.no_grad()
    /\ model' = Forward(model)
    /\ batch_calls' = <<"forward">>
    /\ pc' = "v_loss"
    /\ UNCHANGED <<inputs, data, loaders, optimizer, scheduler, metrics,
                   best_val_acc, history, epoch, outputs, calls, count>>

ValidateLoss(D) ==
    /\ pc = "v_loss"
    /\ \E l \in D.val_loss : run' = [run EXCEPT !.loss = l]
    /\ batch_calls' = Append(batch_calls, "loss")
    /\ pc' = "v_accum"
    /\ UNCHANGED <<inputs, data, loaders, nets, metrics, best_val_acc, history,
                   epoch, outputs, calls, count>>

ValidateAccumulate ==
    /\ pc = "v_accum"
    /\ run' = [run EXCEPT
                 !.running_loss = @ + run.loss,
                 !.total = @ + BatchLen(val_loader, run.b),
                 !.correct = @ + run.ncorrect,
                 !.all_preds = Append(@, [by |-> StateDict(model),
                                          correct |-> run.ncorrect,
                                          n |-> BatchLen(val_loader, run.b)]),
                 !.all_labels = @ \o BatchLabels(val_loader, val_targets, run.b),
                 !.b = @ + 1]
    /\ pc' = BatchOrEnd(val_loader, run.b + 1, "v_forward", "v_end")
    /\ UNCHANGED <<inputs, data, loaders, nets, metrics, best_val_acc, history,
                   epoch, outputs, ghost>>

ValidateEnd ==
    /\ pc = "v_end"
    /\ val_loss' = run.running_loss \div LenLoader(val_loader)
    /\ val_acc' = (100 * run.correct) \div run.total
    /\ all_preds' = run.all_preds
    /\ all_labels' = run.all_labels
    /\ count' = [count EXCEPT !.validate = @ + 1]
    /\ pc' = PcAfter("validate")
    /\ UNCHANGED <<inputs, data, loaders, nets, train_loss, train_acc,
                   best_val_acc, history, epoch, run, outputs, calls,
                   batch_calls>>

----------------------------------------------------------------------------
(* main(): the rest of one loop iteration *)

(* scheduler.step(val_loss) *)
UpdateLearningRate ==
    /\ pc = "scheduler"
    /\ LET r == SchedulerStep(scheduler, optimizer.lr, val_loss)
       IN  /\ scheduler' = r[1]
           /\ optimizer' = [optimizer EXCEPT !.lr = r[2]]
    /\ calls' = Append(calls, "scheduler.step")
    /\ pc' = PcAfter("scheduler")
    /\ UNCHANGED <<inputs, data, loaders, model, metrics, best_val_acc, history,
                   epoch, run, outputs, batch_calls, count>>

WandbLog ==
    /\ pc = "log"
    /\ wandb_log' = Append(wandb_log,
                           [Epoch |-> epoch + 1,
                            TrainLoss |-> train_loss,
                            TrainAccuracy |-> train_acc,
                            ValidationLoss |-> val_loss,
                            ValidationAccuracy |-> val_acc,
                            LearningRate |-> optimizer.lr])
    /\ calls' = Append(calls, "wandb.log")
    /\ pc' = PcAfter("log")
    /\ UNCHANGED <<inputs, data, loaders, nets, metrics, best_val_acc, history,
                   epoch, run, wandb_config, checkpoint_file, plots,
                   batch_calls, count>>

(* if val_acc > best_val_acc: ... torch.save({...}, checkpoint_path) *)
SaveBestModel ==
    /\ pc = "save"
    /\ IF IsNewBest(val_acc, best_val_acc)
       THEN /\ best_val_acc' = val_acc
            /\ checkpoint_file' = [exists |-> TRUE, epoch |-> epoch + 1,
                                   model_state_dict |-> StateDict(model)]
            /\ calls' = Append(calls, "torch.save")
       ELSE UNCHANGED <<best_val_acc, checkpoint_file, calls>>
    /\ pc' = PcAfter("save")
    /\ UNCHANGED <<inputs, data, loaders, nets, metrics, history, epoch, run,
                   wandb_config, wandb_log, plots, batch_calls, count>>

UpdateHistory_swapped ==
    /\ pc = "history"
    /\ history' = [train_loss |-> Append(history.train_loss, train_loss),
                   train_acc  |-> Append(history.train_acc, train_acc),
                   val_loss   |-> Append(history.val_loss, train_loss),
                   val_acc    |-> Append(history.val_acc, val_acc)]
    /\ calls' = Append(calls, "history.append")
    /\ pc' = PcAfter("history")
    /\ UNCHANGED <<inputs, data, loaders, nets, metrics, best_val_acc, epoch,
                   run, outputs, batch_calls, count>>

UpdateHistory ==
    /\ pc = "history"
    /\ history' = [train_loss |-> Append(history.train_loss, train_loss),
                   train_acc  |-> Append(history.train_acc, train_acc),
                   val_loss   |-> Append(history.val_loss, val_loss),
                   val_acc    |-> Append(history.val_acc, val_acc)]
    /\ calls' = Append(calls, "history.append")
    /\ pc' = PcAfter("history")
    /\ UNCHANGED <<inputs, data, loaders, nets, metrics, best_val_acc, epoch,
                   run, outputs, batch_calls, count>>

(* if epoch == CFG.epochs - 1: plot_confusion_matrix(...); then the next epoch *)
PlotConfusionMatrix ==
    /\ pc = "plot"
    /\ IF IsLastEpoch(epoch, cfg.epochs)
       THEN /\ plots' = Append(plots, [y_true |-> all_labels, y_pred |-> all_preds,
                                       class_names |-> LenClasses,
                                       epoch |-> epoch])
            /\ calls' = Append(calls, "plot_confusion_matrix")
       ELSE UNCHANGED <<plots, calls>>
    /\ epoch' = epoch + 1
    /\ pc' = PcAfter("plot")
    /\ UNCHANGED <<inputs, data, loaders, nets, metrics, best_val_acc, history,
                   run, wandb_config, wandb_log, checkpoint_file, batch_calls,
                   count>>

----------------------------------------------------------------------------
(* Specifications.  D bounds what a batch can yield: its loss and the number *)
(* of its predictions that are correct.                                      *)

NextWith(D) ==
    \/ WandbInit
    \/ LoadDatasetLoop
    \/ TrainTestSplit(D)
    \/ Setup
    \/ ForEpoch
    \/ TrainEpochBegin
    \/ TrainZeroGrad
    \/ TrainForward(D)
    \/ TrainLoss(D)
    \/ TrainBackward
    \/ TrainOptimizerStep
    \/ TrainAccumulate
    \/ TrainEpochEnd
    \/ ValidateBegin
    \/ ValidateForward(D)
    \/ ValidateLoss(D)
    \/ ValidateAccumulate
    \/ ValidateEnd
    \/ UpdateLearningRate
    \/ WandbLog
    \/ SaveBestModel
    \/ UpdateHistory
    \/ PlotConfusionMatrix

(* The program as a whole: short runs over no video, over three videos one  *)
(* per batch, and over six videos with a validation set of two.             *)
MainInputs ==
    [epochs |-> 0 .. MaxEpochs, learning_rate |-> {64},
     videos_per_class |-> {MaxPerClass},
     dataset_name |-> DatasetNames,
     scenarios |->
        Scenarios({[c \in ClassIdx |-> 0],
                   [c \in ClassIdx |-> IF c = 0 THEN 2 ELSE IF c = 100 THEN 1 ELSE 0]},
                  {1})
        \cup Scenarios({[c \in ClassIdx |-> IF c \in {0, 1, 100} THEN 2 ELSE 0]}, {4}),
     files |-> {NoFile, StaleFile}]

MainOutcomes ==
    [train_loss |-> {20000}, train_correct |-> {0, 1},
     val_loss |-> {10000, 20000}, val_correct |-> {0, 1, 2},
     all_perms |-> FALSE]

Init == InitWith(MainInputs)
Next == NextWith(MainOutcomes)
Spec == Init /\ [][Next]_vars

(* The same runs under weak fairness: the interpreter keeps executing main() *)
(* until it returns or raises.  One dataset name and no earlier checkpoint.  *)
FairInputs == [MainInputs EXCEPT !.dataset_name = {"ucf101"}, !.files = {NoFile}]
InitFair == InitWith(FairInputs)
FairSpec == InitFair /\ [][Next]_vars /\ WF_vars(Next)

(* Dataset discovery and split: every directory content on two classes and  *)
(* six videos on three, every --videos_per_class and every permutation,     *)
(* then no epoch or two.                                                    *)
DataInputs ==
    [epochs |-> {0, 2}, learning_rate |-> {64},
     videos_per_class |-> 0 .. MaxPerClass,
     dataset_name |-> {"ucf101"},
     scenarios |->
        Scenarios(DirsOn({0, 100}, MaxFiles), {1, 2})
        \cup Scenarios({[c \in ClassIdx |-> IF c \in {0, 1, 100} THEN 2 ELSE 0]}, {1}),
     files |-> {NoFile}]

DataOutcomes ==
    [train_loss |-> {20000}, train_correct |-> {1},
     val_loss |-> {10000}, val_correct |-> {0, 1},
     all_perms |-> TRUE]

InitData == InitWith(DataInputs)
NextData == NextWith(DataOutcomes)
SpecData == InitData /\ [][NextData]_vars

(* The scheduler: long runs over two videos in which only the validation    *)
(* loss varies: by a lot, by less than the threshold, or not at all.        *)
SchedInputs ==
    [epochs |-> {MaxSchedEpochs}, learning_rate |-> {16},
     videos_per_class |-> {MaxPerClass},
     dataset_name |-> {"ucf101"},
     scenarios |-> Scenarios({[c \in ClassIdx |-> IF c = 0 THEN 2 ELSE 0]}, {1}),
     files |-> {NoFile}]

SchedOutcomes ==
    [train_loss |-> {20000}, train_correct |-> {1},
     val_loss |-> {10000, 19999, 20000}, val_correct |-> {1},
     all_perms |-> FALSE]

InitSched == InitWith(SchedInputs)
NextSched == NextWith(SchedOutcomes)
SpecSched == InitSched /\ [][NextSched]_vars

----------------------------------------------------------------------------
(* Properties *)

Range(sq) == {sq[k] : k \in 1 .. Len(sq)}
SetMax(S) == CHOOSE m \in S : \A x \in S : x <= m
SetMin(S) == CHOOSE m \in S : \A x \in S : m <= x

InIteration == pc \notin {"start", "load", "split", "setup", "raised", "for", "done"}
AtBoundary == pc \in {"for", "done"}
WrittenThisRun == checkpoint_file.model_state_dict.run = "this"

(* Validation accuracies of the epochs whose save step has run *)
AccsSaved == history.val_acc \o (IF pc = "history" THEN <<val_acc>> ELSE <<>>)

(* C1: when main() returns it has run exactly CFG.epochs iterations, numbered *)
(* 1, 2, ... without gap or repeat; each iteration makes one train_epoch call *)
(* and then one validate call, which sees the parameters that training pass   *)
(* left; and every run ends, by returning or in the split's ValueError.       *)
C1_Counts ==
    /\ epoch <= cfg.epochs
    /\ count.validate <= count.train_epoch
    /\ count.train_epoch <= count.validate + 1
    /\ AtBoundary => count.train_epoch = epoch /\ count.validate = epoch
    /\ InIteration => count.train_epoch \in {epoch, epoch + 1}
    /\ pc = PcAfter("validate") =>
          \A j \in 1 .. Len(all_preds) :
              all_preds[j].by.params = (epoch + 1) * LenLoader(train_loader)
    /\ pc = "done" =>
          /\ epoch = cfg.epochs
          /\ count.train_epoch = cfg.epochs /\ count.validate = cfg.epochs
          /\ Len(wandb_log) = cfg.epochs
          /\ \A k \in 1 .. Len(wandb_log) : wandb_log[k].Epoch = k
(* C1: every run ends, C1_Counts holds throughout, and epoch only steps by 1 *)
C1_EpochLoop ==
    /\ <>(pc \in {"done", "raised"})
    /\ []C1_Counts
    /\ [][epoch' \in {epoch, epoch + 1}]_vars
C1_Witness ==
    pc = "done" /\ cfg.epochs = MaxEpochs /\ count.validate = MaxEpochs

(* C2: after every completed epoch the checkpoint file exists, was written by *)
(* this run, and holds the epoch number and the weights of an epoch whose     *)
(* validation accuracy is the maximum so far.                                 *)
C2_CheckpointHoldsBest ==
    (AtBoundary /\ Len(history.val_acc) >= 1) =>
        /\ checkpoint_file.exists
        /\ WrittenThisRun
        /\ checkpoint_file.epoch \in 1 .. Len(history.val_acc)
        /\ history.val_acc[checkpoint_file.epoch] = SetMax(Range(history.val_acc))
        /\ checkpoint_file.model_state_dict.params =
               checkpoint_file.epoch * LenLoader(train_loader)

(* C4: the confusion matrix is plotted at most once, never when epochs = 0,   *)
(* exactly once by the time a run of at least one epoch returns; it is        *)
(* plotted in iteration epochs - 1 after the history update, from the labels  *)
(* and predictions of that iteration's validation pass, which the final       *)
(* parameters of the model made.                                              *)
C4_ConfusionMatrix ==
    /\ Len(plots) <= 1
    /\ cfg.epochs = 0 => plots = <<>>
    /\ (pc = "done" /\ cfg.epochs >= 1) => Len(plots) = 1
    /\ (InIteration \/ (pc = "for" /\ epoch < cfg.epochs)) => plots = <<>>
    /\ plots # <<>> =>
          /\ plots[1].epoch = cfg.epochs - 1
          /\ Len(history.val_acc) = cfg.epochs
          /\ plots[1].y_true = all_labels /\ plots[1].y_pred = all_preds
          /\ plots[1].y_true = val_targets
          /\ \A j \in 1 .. Len(plots[1].y_pred) :
                /\ plots[1].y_pred[j].by = StateDict(model)
                /\ plots[1].y_pred[j].by.params = cfg.epochs * LenLoader(train_loader)
C4_Witness ==
    /\ pc = "done" /\ Len(plots) = 1 /\ cfg.epochs = MaxEpochs
    /\ WrittenThisRun /\ checkpoint_file.epoch < cfg.epochs

(* C5: best_val_acc starts at 0, never decreases and is the maximum of 0 and  *)
(* the validation accuracies seen; the checkpoint file is written exactly in  *)
(* the save steps whose val_acc is strictly above best_val_acc, so it holds   *)
(* the earliest epoch that reached the maximum and is never written by a run  *)
(* whose validation accuracy stays 0.                                         *)
C5_Best ==
    /\ best_val_acc = SetMax({0} \cup Range(AccsSaved))
    /\ WrittenThisRun =>
          checkpoint_file.epoch =
              SetMin({k \in 1 .. Len(AccsSaved) : AccsSaved[k] = best_val_acc})
    /\ (\A k \in 1 .. Len(AccsSaved) : AccsSaved[k] = 0) => ~WrittenThisRun
C5_Step ==
    /\ best_val_acc' >= best_val_acc
    /\ checkpoint_file' # checkpoint_file <=> (pc = "save" /\ val_acc > best_val_acc)
(* C5: best_val_acc is 0 when the loop starts, C5_Best holds throughout and  *)
(* every step satisfies C5_Step                                              *)
C5_BestTracking ==
    /\ [](pc = "for" /\ epoch = 0 => best_val_acc = 0)
    /\ []C5_Best
    /\ [][C5_Step]_vars
C5_Witness ==
    /\ pc = "done" /\ Len(history.val_acc) = 3
    /\ history.val_acc[1] = 50 /\ history.val_acc[2] = 100 /\ history.val_acc[3] = 100
    /\ checkpoint_file.epoch = 2

(* C9: the four history lists have one length, the number of completed epochs *)
(* at every loop boundary and CFG.epochs at the return; entry k holds the     *)
(* metrics of epoch k as they were logged; and once a checkpoint has been     *)
(* written and the epoch's append is done, best_val_acc is the maximum of     *)
(* history['val_acc'].                                                        *)
C9_History ==
    /\ Len(history.train_loss) = Len(history.val_acc)
    /\ Len(history.train_acc) = Len(history.val_acc)
    /\ Len(history.val_loss) = Len(history.val_acc)
    /\ AtBoundary => Len(history.val_acc) = epoch
    /\ pc = "done" => Len(history.val_acc) = cfg.epochs
    /\ \A k \in 1 .. Len(history.val_acc) :
          /\ wandb_log[k].Epoch = k
          /\ history.train_loss[k] = wandb_log[k].TrainLoss
          /\ history.train_acc[k] = wandb_log[k].TrainAccuracy
          /\ history.val_loss[k] = wandb_log[k].ValidationLoss
          /\ history.val_acc[k] = wandb_log[k].ValidationAccuracy
    /\ (WrittenThisRun /\ pc # "history") =>
          best_val_acc = SetMax(Range(history.val_acc))
C9_Witness ==
    /\ pc = "done" /\ cfg.epochs = MaxEpochs /\ WrittenThisRun
    /\ history.val_loss[1] # history.val_loss[2]
    /\ history.train_acc[1] # history.train_acc[2]
    /\ history.val_acc[MaxEpochs] < best_val_acc

(* C10: the class count given to wandb.init is the number of outputs of the   *)
(* model and the number of label indices the discovery loop emits, so every   *)
(* target lies below it.                                                      *)
C10_ClassCountsAgree ==
    (InIteration \/ AtBoundary) =>
        /\ wandb_config.num_classes = model.num_classes
        /\ wandb_config.num_classes = Cardinality(ClassIdx)
        /\ \A k \in 1 .. Len(targets) : targets[k] < wandb_config.num_classes

(* The scheduler as the log shows it.  The log only grows, so what is said of *)
(* all its records is looked at in the states right after a record is added.  *)
Logged == Len(wandb_log)
Loss(k) == wandb_log[k].ValidationLoss
Lr(k) == IF k = 0 THEN cfg.learning_rate ELSE wandb_log[k].LearningRate
Reduced(k) == Lr(k) # Lr(k - 1)
StepDone == pc \in {"log", "save", "history", "plot"}
JustLogged == calls # <<>> /\ calls[Len(calls)] = "wandb.log"

(* The best validation loss of the epochs 1 .. k, where a loss replaces the   *)
(* best only when it is below it by more than the relative threshold          *)
RECURSIVE SignificantBest(_)
SignificantBest(k) ==
    IF k = 0 THEN <<>>
    ELSE IF IsBetter(Loss(k), SignificantBest(k - 1)) THEN <<Loss(k)>>
         ELSE SignificantBest(k - 1)

LowestBefore(k) == SetMin({Loss(j) : j \in 1 .. (k - 1)})

C3_Rate ==
    /\ scheduler.last_epoch = epoch + (IF StepDone THEN 1 ELSE 0)
    /\ (pc = "for" /\ epoch = 0) => optimizer.lr = cfg.learning_rate
    /\ optimizer.lr <= cfg.learning_rate
    /\ JustLogged =>
          \A k \in 1 .. Logged :
              /\ Lr(k) <= Lr(k - 1)
              /\ Reduced(k) => 2 * Lr(k) = Lr(k - 1)
    /\ pc = "log" =>
          /\ optimizer.lr \in {Lr(Logged), Lr(Logged) \div 2}
          /\ optimizer.lr # Lr(Logged) => scheduler.num_bad_epochs = 0

(* C3 as stated: on top of C3_Rate, the rate is reduced at epoch k only when  *)
(* each of the epochs k-3 .. k had a validation loss not below the lowest of  *)
(* the epochs before it.                                                      *)
C3_PlateauAnyImprovement ==
    /\ C3_Rate
    /\ JustLogged =>
          \A k \in 1 .. Logged :
              Reduced(k) =>
                  \A j \in (k - 3) .. k : j >= 2 /\ Loss(j) >= LowestBefore(j)

(* C3 as amended: the rate is reduced at epoch k only when none of the epochs *)
(* k-3 .. k brought the validation loss below best * (1 - 1e-4), the best     *)
(* being the last loss that did; no other reduction lies in k-3 .. k-1; and   *)
(* the scheduler's best is that best.                                         *)
C3_PlateauThreshold ==
    /\ C3_Rate
    /\ pc = "log" => scheduler.best = IF IsBetter(val_loss, SignificantBest(Logged))
                                      THEN <<val_loss>> ELSE SignificantBest(Logged)
    /\ JustLogged =>
          \A k \in 1 .. Logged :
              Reduced(k) =>
                  \A j \in (k - 3) .. k :
                      /\ j >= 2
                      /\ ~IsBetter(Loss(j), SignificantBest(j - 1))
                      /\ j < k => ~Reduced(j)
C3_Witness ==
    /\ pc = "done" /\ Logged >= 5
    /\ Reduced(5) /\ Loss(1) = 20000
    /\ \A j \in 2 .. 5 : Loss(j) = 19999

(* C6: wandb.log is called once per epoch with the epoch numbers 1, 2, ...;   *)
(* within an iteration the calls come in the order train_epoch, validate,     *)
(* scheduler.step, wandb.log, torch.save (if any), history append; the logged *)
(* learning rate of epoch k is the rate the scheduler leaves after k steps,   *)
(* while the training pass of epoch k used the rate logged for epoch k-1.     *)
RECURSIVE ScheduleAfter(_)
ScheduleAfter(k) ==
    IF k = 0 THEN <<NewScheduler, cfg.learning_rate>>
    ELSE LET before == ScheduleAfter(k - 1)
         IN  SchedulerStep(before[1], before[2], Loss(k))

Mandatory == <<"train_epoch", "validate", "scheduler.step", "wandb.log", "history.append">>
Optional == {"torch.save", "plot_confusion_matrix"}
IsPrefix(a, b) == Len(a) <= Len(b) /\ SubSeq(b, 1, Len(a)) = a
MandatoryCalls == SelectSeq(calls, LAMBDA c : c \notin Optional)
CallsBefore(p) ==
    CASE p = "scheduler" -> <<"train_epoch", "validate">>
      [] p = "log"       -> <<"train_epoch", "validate", "scheduler.step">>
      [] p = "save"      -> <<"train_epoch", "validate", "scheduler.step", "wandb.log">>
      [] OTHER           -> calls

C6_Logging ==
    /\ Logged = epoch + (IF pc \in {"save", "history", "plot"} THEN 1 ELSE 0)
    /\ JustLogged =>
          \A k \in 1 .. Logged :
              /\ wandb_log[k].Epoch = k
              /\ Lr(k) = ScheduleAfter(k)[2]
    /\ IsPrefix(MandatoryCalls, Mandatory)
    /\ calls = CallsBefore(pc)
    /\ pc = "history" => calls \in {CallsBefore("save"),
                                    Append(CallsBefore("save"), "torch.save")}
    /\ (pc = "plot" \/ (AtBoundary /\ epoch >= 1)) => MandatoryCalls = Mandatory
    /\ pc \in {"scheduler", "log", "save", "history", "plot"} =>
          optimizer.used_lr = Lr(epoch)
    /\ pc \in {"save", "history", "plot"} => optimizer.lr = Lr(epoch + 1)
C6_Witness ==
    /\ pc = "save" /\ epoch = 4
    /\ wandb_log[5].LearningRate = 8 /\ optimizer.used_lr = 16
    /\ wandb_log[4].LearningRate = 16

(* C7: the discovery loop keeps file_paths and targets parallel: equal        *)
(* lengths, the path at each position comes from the class its target names,  *)
(* targets never decrease, and class c contributes min(files in its           *)
(* directory, videos_per_class) positions; when the split returns, the pairs  *)
(* (path, target) of the train and validation sets partition the pairs        *)
(* discovered.  The counts are looked at while and right after the loop runs, *)
(* the split right after it returns.                                          *)
Pairs(ps, ts) == {<<ps[k], ts[k]>> : k \in 1 .. Len(ps)}
Contribution(c) == Cardinality({k \in 1 .. Len(targets) : targets[k] = c})

C7_ParallelLists ==
    /\ Len(file_paths) = Len(targets)
    /\ \A k \in 1 .. Len(file_paths) : file_paths[k][1] = targets[k]
    /\ \A k \in 1 .. (Len(targets) - 1) : targets[k] <= targets[k + 1]
    /\ Cardinality(Range(file_paths)) = Len(file_paths)
    /\ pc \in {"load", "split"} =>
          \A c \in ClassIdx :
              /\ Contribution(c) <= cfg.videos_per_class
              /\ c < class_i => Contribution(c) = Min(dirs[c], cfg.videos_per_class)
              /\ c >= class_i => Contribution(c) = 0
    /\ pc = "split" => class_i = LenClasses
    /\ pc = "setup" =>
          /\ Len(train_paths) = Len(train_targets)
          /\ Len(val_paths) = Len(val_targets)
          /\ Len(train_paths) + Len(val_paths) = Len(file_paths)
          /\ Pairs(train_paths, train_targets) \cup Pairs(val_paths, val_targets)
                 = Pairs(file_paths, targets)
          /\ Range(train_paths) \cap Range(val_paths) = {}
          /\ Cardinality(Range(train_paths)) = Len(train_paths)
          /\ Cardinality(Range(val_paths)) = Len(val_paths)
C7_Witness ==
    /\ pc = "setup" /\ cfg.videos_per_class = 1
    /\ dirs[0] = 2 /\ dirs[1] = 2 /\ dirs[100] = 2
    /\ val_targets = <<1>> /\ train_targets = <<100, 0>>

(* C8: parameters, running statistics and optimizer updates change only       *)
(* inside train_epoch; every training batch sees zero_grad, forward, loss,    *)
(* backward, optimizer.step in this order and one update; validate makes only *)
(* forward and loss calls and leaves the state_dict as it found it; and a     *)
(* checkpoint written in an epoch holds the state_dict that made that epoch's *)
(* validation predictions.                                                    *)
TrainBatchCalls == <<"zero_grad", "forward", "loss", "backward", "optimizer.step">>
TrainPcs == {"t_zero_grad", "t_forward", "t_loss", "t_backward", "t_step",
             "t_accum", "t_end"}
ValidatePcs == {"v_forward", "v_loss", "v_accum", "v_end"}
CallsAt(p) ==
    CASE p = "t_forward"  -> 1
      [] p = "t_loss"     -> 2
      [] p = "t_backward" -> 3
      [] p = "t_step"     -> 4
      [] p = "t_accum"    -> 5
      [] OTHER            -> 0
RECURSIVE SumOf(_, _)
SumOf(sq, field) ==
    IF sq = <<>> THEN 0 ELSE sq[1][field] + SumOf(Tail(sq), field)

C8_Updates ==
    /\ model.params = optimizer.steps
    /\ pc \in {"t_forward", "t_loss", "t_backward", "t_step", "t_accum"} =>
          batch_calls = SubSeq(TrainBatchCalls, 1, CallsAt(pc))
    /\ pc \in TrainPcs =>
          optimizer.steps = epoch * LenLoader(train_loader) + run.b
                            + (IF pc = "t_accum" THEN 1 ELSE 0)
    /\ (pc \notin TrainPcs /\ (InIteration \/ AtBoundary)) =>
          optimizer.steps = count.train_epoch * LenLoader(train_loader)
    /\ pc \in ValidatePcs =>
          /\ Range(batch_calls) \subseteq {"forward", "loss"}
          /\ ~run.graph
          /\ \A j \in 1 .. Len(run.all_preds) : run.all_preds[j].by = StateDict(model)
    /\ pc \in {"scheduler", "log", "save", "history", "plot"} =>
          /\ Len(all_preds) = LenLoader(val_loader)
          /\ \A j \in 1 .. Len(all_preds) : all_preds[j].by = StateDict(model)
          /\ val_acc = (100 * SumOf(all_preds, "correct")) \div SumOf(all_preds, "n")
    /\ (pc \in {"history", "plot"} /\ WrittenThisRun /\ checkpoint_file.epoch = epoch + 1) =>
          \A j \in 1 .. Len(all_preds) : all_preds[j].by = checkpoint_file.model_state_dict
C8_Step ==
    (\/ StateDict(model)' # StateDict(model)
     \/ optimizer.steps' # optimizer.steps) => pc \in TrainPcs
====
